---- MODULE Spec2Model ----
(***************************************************************************)
(* Model of energy_flow_calculator.py (class EnergyCalculator).            *)
(*                                                                         *)
(* Python floats are modelled as binary floating-point numbers with a      *)
(* PrecBits-bit significand and round-to-nearest-even, value m * 2^e.      *)
(* Exceptions, None, complex and nan are tagged values.                    *)
(***************************************************************************)
EXTENDS Integers, Sequences, FiniteSets, TLC

(***************************************************************************)
(* State.                                                                  *)
(*   animal_data, temperature_entry, lbl_result, canvas_frame: the fields  *)
(*   of EnergyCalculator; callback_exc: the exception the last event of    *)
(*   the window ended in, "none" if it returned (Tk reports the exception  *)
(*   of a callback and keeps running).                                     *)
(*   fn_name, fn_args, fn_frame, fn_ret: one call of a method of the       *)
(*   engine with its arguments, the locals of metabolic_rate at its return,*)
(*   and the outcome of the call.                                          *)
(***************************************************************************)
VARIABLES animal_data, temperature_entry, lbl_result, canvas_frame, callback_exc,
          fn_name, fn_args, fn_frame, fn_ret

(***************************************************************************)
(* Bounds of the model.                                                    *)
(***************************************************************************)
PrecBits == 14      \* significand width of the modelled float
ExpTerms == 6       \* terms of the series used for exp
LnTerms == 4        \* terms of the series used for log
MaxGroups == 1      \* animal groups the user adds
MaxCharts == 1      \* charts display_stats embeds in the window

(***************************************************************************)
(* Floating-point arithmetic (the Python float operators * + - / ** and    *)
(* math.exp, math.log10 used by the source).                               *)
(***************************************************************************)
Abs(x) == IF x < 0 THEN -x ELSE x

Sgn(x) == IF x < 0 THEN -1 ELSE 1

RECURSIVE BitLen(_)
BitLen(n) == IF n = 0 THEN 0 ELSE 1 + BitLen(n \div 2)

Zero == [m |-> 0, e |-> 0]

\* a / 2^s rounded to the nearest integer, ties to even (a >= 0)
RoundShift(a, s) ==
  IF 2 * (a % 2^s) > 2^s \/ (2 * (a % 2^s) = 2^s /\ (a \div 2^s) % 2 = 1)
  THEN (a \div 2^s) + 1
  ELSE a \div 2^s

\* sign * q * 2^e for a rounded significand q <= 2^PrecBits
NormRounded(sign, q, e) ==
  IF q = 2^PrecBits
  THEN [m |-> sign * 2^(PrecBits - 1), e |-> e + 1]
  ELSE [m |-> sign * q, e |-> e]

\* the float nearest to m * 2^e, m # 0 having n bits
NormBits(m, e, n) ==
  IF n <= PrecBits
  THEN [m |-> m * 2^(PrecBits - n), e |-> e - (PrecBits - n)]
  ELSE NormRounded(Sgn(m), RoundShift(Abs(m), n - PrecBits), e + (n - PrecBits))

\* the float nearest to m * 2^e
Norm(m, e) == IF m = 0 THEN Zero ELSE NormBits(m, e, BitLen(Abs(m)))

FromInt(n) == Norm(n, 0)

FNeg(a) == [m |-> -a.m, e |-> a.e]

FMul(a, b) == Norm(a.m * b.m, a.e + b.e)

\* hi + lo for hi.e >= lo.e, both nonzero
FAddAligned(hi, lo) ==
  IF hi.e - lo.e > PrecBits THEN hi ELSE Norm(hi.m * 2^(hi.e - lo.e) + lo.m, lo.e)

FAdd(a, b) ==
  IF a.m = 0 THEN b
  ELSE IF b.m = 0 THEN a
  ELSE IF a.e >= b.e THEN FAddAligned(a, b) ELSE FAddAligned(b, a)

FSub(a, b) == FAdd(a, FNeg(b))

\* sign * (q1 + r1 / den) * 2^(e + 2), rounded once from quotient, half bit
\* and sticky bit
FDivRound(sign, q1, r1, den, e) ==
  Norm(sign * (4 * q1 + 2 * (IF 2 * r1 >= den THEN 1 ELSE 0)
                      + (IF r1 # 0 /\ 2 * r1 # den THEN 1 ELSE 0)), e)

\* a / b for b # 0, correctly rounded
FDiv(a, b) ==
  FDivRound(Sgn(a.m) * Sgn(b.m),
            (Abs(a.m) * 2^PrecBits) \div Abs(b.m),
            (Abs(a.m) * 2^PrecBits) % Abs(b.m),
            Abs(b.m), a.e - b.e - PrecBits - 2)

FLt(a, b) == FSub(a, b).m < 0

FLe(a, b) == FSub(a, b).m <= 0

RECURSIVE P10(_)
P10(k) == IF k = 0 THEN FromInt(1) ELSE FMul(P10(k - 1), FromInt(10))

\* the float written as the decimal literal d * 10^k
Dec(d, k) == IF k >= 0 THEN FMul(FromInt(d), P10(k)) ELSE FDiv(FromInt(d), P10(-k))

\* the integer nearest to a
FRound(a) ==
  IF a.e >= 0 THEN a.m * 2^a.e
  ELSE IF -a.e > PrecBits + 1 THEN 0
  ELSE Sgn(a.m) * RoundShift(Abs(a.m), -a.e)

RECURSIVE ISqrtR(_, _, _)
ISqrtR(n, lo, hi) ==
  IF hi - lo <= 1 THEN lo
  ELSE IF ((lo + hi) \div 2) * ((lo + hi) \div 2) <= n
       THEN ISqrtR(n, (lo + hi) \div 2, hi)
       ELSE ISqrtR(n, lo, (lo + hi) \div 2)

\* the even shift that widens a significand before its integer root is taken
SqrtShift == 2 * ((29 - PrecBits) \div 2)

\* sqrt(n * 2^e2) from r = floor(sqrt(n)), with half bit and sticky bit
FSqrtRound(n, r, e2) ==
  Norm(4 * r + 2 * (IF r * r + r < n THEN 1 ELSE 0) + (IF r * r # n THEN 1 ELSE 0),
       e2 \div 2 - 2)

\* sqrt(m2 * 2^e2) for even e2
FSqrtEven(m2, e2) ==
  FSqrtRound(m2 * 2^SqrtShift, ISqrtR(m2 * 2^SqrtShift, 0, 46341), e2 - SqrtShift)

\* square root of a >= 0
FSqrt(a) ==
  IF a.m = 0 THEN Zero
  ELSE IF a.e % 2 = 1 THEN FSqrtEven(2 * a.m, a.e - 1)
  ELSE FSqrtEven(a.m, a.e)

Ln2 == Dec(693147181, -9)

Ln10 == Dec(230258509, -8)

RECURSIVE ExpSeries(_, _)
ExpSeries(r, i) ==
  IF i > ExpTerms THEN FromInt(1)
  ELSE FAdd(FromInt(1), FMul(FDiv(r, FromInt(i)), ExpSeries(r, i + 1)))

\* y * 2^k
FScale(y, k) == [m |-> y.m, e |-> y.e + k]

\* exp(x) with k the integer nearest to x / ln 2
FExpReduced(x, k) == FScale(ExpSeries(FSub(x, FMul(FromInt(k), Ln2)), 1), k)

\* math.exp
FExp(x) == FExpReduced(x, FRound(FDiv(x, Ln2)))

RECURSIVE LnSeries(_, _, _)
LnSeries(z, z2, i) ==
  IF i > LnTerms THEN Zero
  ELSE FAdd(FDiv(z, FromInt(2 * i - 1)), LnSeries(FMul(z, z2), z2, i + 1))

\* k * ln 2 + 2 * atanh(z)
FLnSum(z, k) ==
  FAdd(FMul(FromInt(k), Ln2), FMul(FromInt(2), LnSeries(z, FMul(z, z), 1)))

\* ln(y * 2^k) for y in [0.7, 1.4)
FLnReduced(y, k) == FLnSum(FDiv(FSub(y, FromInt(1)), FAdd(y, FromInt(1))), k)

\* natural logarithm of x > 0
FLn(x) ==
  IF 5 * x.m > 7 * 2^(PrecBits - 1)
  THEN FLnReduced([m |-> x.m, e |-> -PrecBits], x.e + PrecBits)
  ELSE FLnReduced([m |-> x.m, e |-> -(PrecBits - 1)], x.e + PrecBits - 1)

\* log10 of x > 0
FLog10(x) == FDiv(FLn(x), Ln10)

(***************************************************************************)
(* Python values: floats, None, complex numbers, nan and raised exceptions.*)
(***************************************************************************)
PyFloat(f) == [kind |-> "float", val |-> f]

PyNone == [kind |-> "None"]

PyComplex == [kind |-> "complex"]

PyNan == [kind |-> "nan"]

PyRaise(exc) == [kind |-> "raise", exc |-> exc]

\* x ** y on floats
pow(x, y) ==
  IF x.m = 0
  THEN IF y.m > 0 THEN PyFloat(Zero)
       ELSE IF y.m = 0 THEN PyFloat(FromInt(1))
       ELSE PyRaise("ZeroDivisionError")
  ELSE IF x.m < 0 THEN PyComplex
  ELSE PyFloat(FExp(FMul(y, FLn(x))))

\* math.log10
log10(x) == IF x.m <= 0 THEN PyRaise("ValueError") ELSE PyFloat(FLog10(x))

\* value * number with number an int
PyMulInt(v, number) ==
  CASE v.kind = "float"   -> PyFloat(FMul(v.val, FromInt(number)))
    [] v.kind = "complex" -> PyComplex
    [] v.kind = "None"    -> PyRaise("TypeError")
    [] OTHER              -> v

(***************************************************************************)
(* Strings the program converts (lower(), float(), int()) are sequences of *)
(* characters.                                                             *)
(***************************************************************************)
endothermic == <<"e","n","d","o","t","h","e","r","m","i","c">>

ectothermic == <<"e","c","t","o","t","h","e","r","m","i","c">>

Endothermic == <<"E","n","d","o","t","h","e","r","m","i","c">>

Ectothermic == <<"E","c","t","o","t","h","e","r","m","i","c">>

MassKg == <<"M","a","s","s"," ","(","k","g",")">>

LengthCm == <<"L","e","n","g","t","h"," ","(","c","m",")">>

(***************************************************************************)
(* EnergyCalculator.metabolic_rate                                         *)
(***************************************************************************)
sig == Dec(5, -1)

Ea == Dec(69, -2)

kB == Dec(861733326, -13)

Ib(metabolic_type) == FMul(Dec(419, -2), P10(10))

bf(metabolic_type) == Dec(69, -2)

If(metabolic_type) ==
  IF metabolic_type = endothermic
  THEN FMul(Dec(908, -2), P10(11))
  ELSE FMul(Dec(149, -2), P10(11))

bb(metabolic_type) == IF metabolic_type = endothermic THEN Dec(7, -1) ELSE Dec(88, -2)

\* Tk with the endothermic branch following the ambient temperature
Tk_ambient(metabolic_type, temperature) == FAdd(temperature, Dec(27415, -2))

\* Tk with the ectothermic offset 273.15
Tk_273(metabolic_type, temperature) ==
  IF metabolic_type = endothermic
  THEN Dec(3100, -1)
  ELSE FAdd(temperature, Dec(27315, -2))

Tk(metabolic_type, temperature) ==
  IF metabolic_type = endothermic
  THEN Dec(3100, -1)
  ELSE FAdd(temperature, Dec(27415, -2))

\* the return expression shared by the two branches, from their locals
rate_sum(l_Ib, l_If, boltzmann, pow_bf, pow_bb) ==
  IF pow_bf.kind = "complex" \/ pow_bb.kind = "complex" THEN PyComplex
  ELSE PyFloat(FAdd(FMul(FMul(FMul(sig, l_If), boltzmann), pow_bf.val),
                    FMul(FMul(FMul(FSub(FromInt(1), sig), l_Ib), boltzmann), pow_bb.val)))

rate_expr(mass_g, l_Ib, l_bf, l_If, l_bb, l_Tk) ==
  rate_sum(l_Ib, l_If, FExp(FNeg(FDiv(Ea, FMul(kB, l_Tk)))),
           pow(mass_g, l_bf), pow(mass_g, l_bb))

\* the locals of a call of metabolic_rate when it returns, and its result
branch_frame(mass_g, l_Ib, l_bf, l_If, l_bb, l_Tk) ==
  [called |-> TRUE, mass_g |-> mass_g, Ib |-> l_Ib, bf |-> l_bf, If |-> l_If,
   bb |-> l_bb, Tk |-> l_Tk, ret |-> rate_expr(mass_g, l_Ib, l_bf, l_If, l_bb, l_Tk)]

metabolic_rate_frame(mass, metabolic_type, temperature) ==
  IF metabolic_type = endothermic \/ metabolic_type = ectothermic
  THEN branch_frame(FMul(mass, FromInt(1000)), Ib(metabolic_type), bf(metabolic_type),
                    If(metabolic_type), bb(metabolic_type),
                    Tk(metabolic_type, temperature))
  ELSE [called |-> TRUE, mass_g |-> FMul(mass, FromInt(1000)), ret |-> PyNone]

metabolic_rate(mass, metabolic_type, temperature) ==
  metabolic_rate_frame(mass, metabolic_type, temperature).ret

(***************************************************************************)
(* EnergyCalculator.length_to_mass                                         *)
(***************************************************************************)
intercept == FNeg(Dec(792, -3))

slope == Dec(2181, -3)

\* the statements after log_length is bound
mass_of_log_length(log_length) ==
  IF log_length.kind = "raise" THEN log_length
  ELSE PyFloat(FMul(pow(FromInt(10), FAdd(intercept, FMul(slope, log_length.val))).val,
                    Dec(1, -6)))

length_to_mass(length) == mass_of_log_length(log10(FMul(length, FromInt(10))))

(***************************************************************************)
(* EnergyCalculator.calculate_group_energy                                 *)
(***************************************************************************)
\* the mass handed to metabolic_rate
group_mass(measure, measurement_type) ==
  IF measurement_type = LengthCm THEN length_to_mass(measure) ELSE PyFloat(measure)

\* the return statement, from the local mass
energy_of_mass(mass, number, metabolic_type, temperature) ==
  IF mass.kind = "raise" THEN mass
  ELSE PyMulInt(metabolic_rate(mass.val, metabolic_type, temperature), number)

\* calculate_group_energy scaling the mass, not the rate, by the count
energy_of_scaled_mass(mass, number, metabolic_type, temperature) ==
  IF mass.kind = "raise" THEN mass
  ELSE metabolic_rate(FMul(mass.val, FromInt(number)), metabolic_type, temperature)

calculate_group_energy_mass_scaled(name, measure, number, metabolic_type, measurement_type, temperature) ==
  energy_of_scaled_mass(group_mass(measure, measurement_type), number,
                        metabolic_type, temperature)

calculate_group_energy(name, measure, number, metabolic_type, measurement_type, temperature) ==
  energy_of_mass(group_mass(measure, measurement_type), number,
                 metabolic_type, temperature)

vars == <<animal_data, temperature_entry, lbl_result, canvas_frame, callback_exc,
          fn_name, fn_args, fn_frame, fn_ret>>

gui_vars == <<animal_data, temperature_entry, lbl_result, canvas_frame, callback_exc>>

fn_vars == <<fn_name, fn_args, fn_frame, fn_ret>>

OPTIONS == <<"Mammals", "Birds", "Insects", "Frogs">>

METABOLIC_OPTIONS == <<Endothermic, Ectothermic>>

\* the placeholder of the temperature entry (its degree sign left out)
TemperaturePrompt == <<"T","e","m","p","e","r","a","t","u","r","e"," ","(","C",")">>

NumberPrompt == <<"N","u","m","b","e","r">>

\* the window after __init__
InitWindow ==
  /\ animal_data = <<>>
  /\ temperature_entry = TemperaturePrompt
  /\ lbl_result = [kind |-> "text", text |-> <<>>]
  /\ canvas_frame = 0
  /\ callback_exc = "none"

NoCall ==
  /\ fn_name = "none"
  /\ fn_args = <<>>
  /\ fn_frame = [called |-> FALSE]
  /\ fn_ret = [kind |-> "pending"]

(***************************************************************************)
(* Calls of the engine's methods on arguments drawn from bounded sets.     *)
(***************************************************************************)
hibernating == <<"h","i","b","e","r","n","a","t","i","n","g">>

MeasureInputs == {Dec(-1, 0), Zero, Dec(2, -2), Dec(1, 0), Dec(5, 0)}

NumberInputs == {-1, 0, 1, 2, 3}

StrategyInputs == {endothermic, ectothermic, Endothermic, hibernating}

TemperatureInputs == {Dec(0, 0), Dec(25, 0), Dec(37, 0)}

ArgInputs ==
  [name : {OPTIONS[i] : i \in DOMAIN OPTIONS},
   measure : MeasureInputs,
   number : NumberInputs,
   metabolic_type : StrategyInputs,
   measurement_type : {MassKg, LengthCm},
   temperature : TemperatureInputs]

InitFn ==
  /\ InitWindow
  /\ fn_name = "none"
  /\ fn_args \in ArgInputs
  /\ fn_frame = [called |-> FALSE]
  /\ fn_ret = [kind |-> "pending"]

call_metabolic_rate ==
  /\ fn_name = "none"
  /\ fn_name' = "metabolic_rate"
  /\ fn_frame' = metabolic_rate_frame(fn_args.measure, fn_args.metabolic_type,
                                      fn_args.temperature)
  /\ fn_ret' = metabolic_rate(fn_args.measure, fn_args.metabolic_type,
                              fn_args.temperature)
  /\ UNCHANGED <<fn_args, gui_vars>>

call_length_to_mass ==
  /\ fn_name = "none"
  /\ fn_name' = "length_to_mass"
  /\ fn_ret' = length_to_mass(fn_args.measure)
  /\ UNCHANGED <<fn_args, fn_frame, gui_vars>>

\* the frame of the call of metabolic_rate that calculate_group_energy makes
frame_of_mass(mass, metabolic_type, temperature) ==
  IF mass.kind = "raise" THEN [called |-> FALSE]
  ELSE metabolic_rate_frame(mass.val, metabolic_type, temperature)

inner_frame(a) ==
  frame_of_mass(group_mass(a.measure, a.measurement_type), a.metabolic_type, a.temperature)

call_calculate_group_energy ==
  /\ fn_name = "none"
  /\ fn_name' = "calculate_group_energy"
  /\ fn_frame' = inner_frame(fn_args)
  /\ fn_ret' = calculate_group_energy(fn_args.name, fn_args.measure, fn_args.number,
                                      fn_args.metabolic_type, fn_args.measurement_type,
                                      fn_args.temperature)
  /\ UNCHANGED <<fn_args, gui_vars>>

NextFn ==
  \/ call_metabolic_rate
  \/ call_length_to_mass
  \/ call_calculate_group_energy

SpecFn == InitFn /\ [][NextFn]_vars

(***************************************************************************)
(* Conversions of entry and dropdown text: str.lower, float(), int().      *)
(***************************************************************************)
UpperCase == <<"A","B","C","D","E","F","G","H","I","J","K","L","M",
               "N","O","P","Q","R","S","T","U","V","W","X","Y","Z">>

LowerCase == <<"a","b","c","d","e","f","g","h","i","j","k","l","m",
               "n","o","p","q","r","s","t","u","v","w","x","y","z">>

lower(text) ==
  [i \in DOMAIN text |->
     IF \E k \in DOMAIN UpperCase : UpperCase[k] = text[i]
     THEN LowerCase[CHOOSE k \in DOMAIN UpperCase : UpperCase[k] = text[i]]
     ELSE text[i]]

DigitChars == <<"0","1","2","3","4","5","6","7","8","9">>

IsDigits(text) ==
  /\ text # <<>>
  /\ \A i \in DOMAIN text : \E k \in DOMAIN DigitChars : DigitChars[k] = text[i]

RECURSIVE DigitsValue(_)
DigitsValue(text) ==
  IF text = <<>> THEN 0
  ELSE 10 * DigitsValue(SubSeq(text, 1, Len(text) - 1))
       + (CHOOSE k \in DOMAIN DigitChars : DigitChars[k] = text[Len(text)]) - 1

Signed(text) == text # <<>> /\ text[1] \in {"-", "+"}

Unsigned(text) == IF Signed(text) THEN Tail(text) ELSE text

SignOf(text) == IF text # <<>> /\ text[1] = "-" THEN -1 ELSE 1

\* int(text): an optionally signed run of digits, ValueError otherwise
int(text) ==
  IF IsDigits(Unsigned(text))
  THEN [kind |-> "int", val |-> SignOf(text) * DigitsValue(Unsigned(text))]
  ELSE PyRaise("ValueError")

Points(body) == {i \in DOMAIN body : body[i] = "."}

\* the float with integer part ip and fraction part fp
float_of_parts(sign, ip, fp) ==
  IF /\ ip \o fp # <<>>
     /\ (ip = <<>> \/ IsDigits(ip))
     /\ (fp = <<>> \/ IsDigits(fp))
  THEN PyFloat(Dec(sign * DigitsValue(ip \o fp), -Len(fp)))
  ELSE PyRaise("ValueError")

\* float(text): optionally signed digits with at most one point, ValueError
\* otherwise
float(text) ==
  IF Cardinality(Points(Unsigned(text))) = 0
  THEN IF IsDigits(Unsigned(text))
       THEN PyFloat(FromInt(SignOf(text) * DigitsValue(Unsigned(text))))
       ELSE PyRaise("ValueError")
  ELSE IF Cardinality(Points(Unsigned(text))) = 1
  THEN float_of_parts(SignOf(text),
                      SubSeq(Unsigned(text), 1,
                             (CHOOSE d \in Points(Unsigned(text)) : TRUE) - 1),
                      SubSeq(Unsigned(text),
                             (CHOOSE d \in Points(Unsigned(text)) : TRUE) + 1,
                             Len(Unsigned(text))))
  ELSE PyRaise("ValueError")

(***************************************************************************)
(* numpy statistics of a list of floats (np.mean, np.median, np.std).      *)
(***************************************************************************)
RECURSIVE FSum(_)
FSum(xs) == IF xs = <<>> THEN Zero ELSE FAdd(FSum(SubSeq(xs, 1, Len(xs) - 1)), xs[Len(xs)])

RECURSIVE Insert(_, _)
Insert(x, sorted) ==
  IF sorted = <<>> THEN <<x>>
  ELSE IF FLe(x, sorted[1]) THEN <<x>> \o sorted
  ELSE <<sorted[1]>> \o Insert(x, Tail(sorted))

RECURSIVE Sort(_)
Sort(xs) == IF xs = <<>> THEN <<>> ELSE Insert(xs[1], Sort(Tail(xs)))

np_mean(xs) ==
  IF xs = <<>> THEN PyNan ELSE PyFloat(FDiv(FSum(xs), FromInt(Len(xs))))

\* the mean of the middle element or elements of a sorted list
middle_mean(sorted, n) ==
  IF n % 2 = 1 THEN np_mean(<<sorted[(n + 1) \div 2]>>)
  ELSE np_mean(<<sorted[n \div 2], sorted[n \div 2 + 1]>>)

np_median(xs) == IF xs = <<>> THEN PyNan ELSE middle_mean(Sort(xs), Len(xs))

\* np.std with ddof=1: the sample standard deviation
\* the squared deviations of xs from mean
squares(xs, mean) == [i \in DOMAIN xs |-> FMul(FSub(xs[i], mean), FSub(xs[i], mean))]

np_std_sample(xs) ==
  IF Len(xs) <= 1 THEN PyNan
  ELSE PyFloat(FSqrt(FDiv(FSum(squares(xs, np_mean(xs).val)), FromInt(Len(xs) - 1))))

np_std(xs) ==
  IF xs = <<>> THEN PyNan
  ELSE PyFloat(FSqrt(FDiv(FSum(squares(xs, np_mean(xs).val)), FromInt(Len(xs)))))

(***************************************************************************)
(* The window's callbacks.                                                 *)
(***************************************************************************)
\* update_measurement with the category misspelt
update_measurement_misspelt(group) ==
  LET mt == IF group.name = "Insect" THEN LengthCm ELSE MassKg
  IN  [group EXCEPT !.measurement_type = mt, !.measure = mt]

\* the trace on group_name_var: sets measurement_type and refills the entry
update_measurement(group) ==
  LET mt == IF group.name = "Insects" THEN LengthCm ELSE MassKg
  IN  [group EXCEPT !.measurement_type = mt, !.measure = mt]

\* the dictionary add_group appends; group_frame tells whether the frame that
\* holds the group's widgets still exists
new_group ==
  [name |-> OPTIONS[1],
   measure |-> MassKg,
   number |-> NumberPrompt,
   metabolic_type |-> METABOLIC_OPTIONS[1],
   measurement_type |-> MassKg,
   group_frame |-> TRUE]

add_group ==
  /\ Len(animal_data) < MaxGroups
  /\ animal_data' = Append(animal_data, new_group)
  /\ callback_exc' = "none"
  /\ UNCHANGED <<temperature_entry, lbl_result, canvas_frame, fn_vars>>

\* the Remove button of group i
remove_button(i) ==
  /\ animal_data[i].group_frame
  /\ animal_data' = [animal_data EXCEPT ![i].group_frame = FALSE]
  /\ callback_exc' = "none"
  /\ UNCHANGED <<temperature_entry, lbl_result, canvas_frame, fn_vars>>

\* the user picks a category in group i's dropdown
select_group_name(i, option) ==
  /\ animal_data[i].group_frame
  /\ animal_data' = [animal_data EXCEPT ![i] = update_measurement([@ EXCEPT !.name = option])]
  /\ callback_exc' = "none"
  /\ UNCHANGED <<temperature_entry, lbl_result, canvas_frame, fn_vars>>

\* the user picks a strategy in group i's dropdown
select_metabolic(i, option) ==
  /\ animal_data[i].group_frame
  /\ animal_data' = [animal_data EXCEPT ![i].metabolic_type = option]
  /\ callback_exc' = "none"
  /\ UNCHANGED <<temperature_entry, lbl_result, canvas_frame, fn_vars>>

\* the categories the user picks; the other entries of OPTIONS take the branch
\* of update_measurement that "Mammals" takes
PickedNames == {"Mammals", "Insects"}

TypedMeasures == {<<"1", ".", "0">>}

TypedNumbers == {<<"2">>}

TypedTemperatures == {<<"2", "5">>}

\* the user types into an entry
type_measure(i, text) ==
  /\ animal_data[i].group_frame
  /\ animal_data' = [animal_data EXCEPT ![i].measure = text]
  /\ callback_exc' = "none"
  /\ UNCHANGED <<temperature_entry, lbl_result, canvas_frame, fn_vars>>

type_number(i, text) ==
  /\ animal_data[i].group_frame
  /\ animal_data' = [animal_data EXCEPT ![i].number = text]
  /\ callback_exc' = "none"
  /\ UNCHANGED <<temperature_entry, lbl_result, canvas_frame, fn_vars>>

type_temperature(text) ==
  /\ temperature_entry' = text
  /\ callback_exc' = "none"
  /\ UNCHANGED <<animal_data, lbl_result, canvas_frame, fn_vars>>

\* one pass of the loop body shared by calculate_energy and display_stats:
\* reads group's widgets and calls calculate_group_energy
group_call(name, measure, number, metabolic_type, measurement_type, temperature) ==
  IF measure.kind = "raise" THEN measure
  ELSE IF number.kind = "raise" THEN number
  ELSE calculate_group_energy(name, measure.val, number.val, metabolic_type,
                              measurement_type, temperature)

read_group(group, temperature) ==
  IF ~group.group_frame THEN PyRaise("TclError")
  ELSE group_call(group.name, float(group.measure), int(group.number),
                  lower(group.metabolic_type), group.measurement_type, temperature)

\* total_energy += group_energy
PyAdd(total, energy) ==
  IF total.kind = "float" /\ energy.kind = "float"
  THEN PyFloat(FAdd(total.val, energy.val))
  ELSE PyComplex

\* the loop of calculate_energy over groups, from the accumulators
RECURSIVE energy_loop(_, _, _, _)
RECURSIVE energy_step(_, _, _, _, _)
energy_step(groups, temperature, total_energy, group_energies, group_energy) ==
  IF group_energy.kind = "raise" THEN [exc |-> group_energy.exc]
  ELSE energy_loop(Tail(groups), temperature, PyAdd(total_energy, group_energy),
                   Append(group_energies,
                          [name |-> groups[1].name, energy |-> group_energy]))

energy_loop(groups, temperature, total_energy, group_energies) ==
  IF groups = <<>>
  THEN [exc |-> "none", total |-> total_energy, groups |-> group_energies]
  ELSE energy_step(groups, temperature, total_energy, group_energies,
                   read_group(groups[1], temperature))

\* calculate_energy once the temperature entry is converted
energy_at(data, temperature) ==
  IF temperature.kind = "raise" THEN [exc |-> temperature.exc]
  ELSE energy_loop(data, temperature.val, PyFloat(Zero), <<>>)

\* the outcome of calculate_energy: the exception it ends in, or its totals
calculate_energy_run(data, temperature_text) == energy_at(data, float(temperature_text))

calculate_energy ==
  \E run \in {calculate_energy_run(animal_data, temperature_entry)} :
    /\ callback_exc' = run.exc
    /\ lbl_result' = IF run.exc = "none"
                     THEN [kind |-> "energy", total |-> run.total, groups |-> run.groups]
                     ELSE lbl_result
    /\ UNCHANGED <<animal_data, temperature_entry, canvas_frame, fn_vars>>

\* the loop of display_stats over groups
RECURSIVE stats_loop(_, _, _)
RECURSIVE stats_step(_, _, _, _)
stats_step(groups, temperature, group_energies, total_energy) ==
  IF total_energy.kind = "raise" THEN [exc |-> total_energy.exc]
  ELSE stats_loop(Tail(groups), temperature, Append(group_energies, total_energy.val))

stats_loop(groups, temperature, group_energies) ==
  IF groups = <<>>
  THEN [exc |-> "none", energies |-> group_energies]
  ELSE stats_step(groups, temperature, group_energies, read_group(groups[1], temperature))

\* display_stats once the temperature entry is converted
stats_at(data, temperature) ==
  IF temperature.kind = "raise" THEN [exc |-> temperature.exc]
  ELSE stats_loop(data, temperature.val, <<>>)

\* the outcome of display_stats: the exception it ends in, or the energies
display_stats_run(data, temperature_text) == stats_at(data, float(temperature_text))

display_stats ==
  \E run \in {display_stats_run(animal_data, temperature_entry)} :
    /\ canvas_frame < MaxCharts
    /\ callback_exc' = run.exc
    /\ IF run.exc = "none"
       THEN /\ lbl_result' = [kind |-> "stats",
                              mean |-> np_mean(run.energies),
                              median |-> np_median(run.energies),
                              std |-> np_std(run.energies)]
            /\ canvas_frame' = canvas_frame + 1
       ELSE UNCHANGED <<lbl_result, canvas_frame>>
    /\ UNCHANGED <<animal_data, temperature_entry, fn_vars>>

Init == InitWindow /\ NoCall

Next ==
  \/ add_group
  \/ \E i \in DOMAIN animal_data : remove_button(i)
  \/ \E i \in DOMAIN animal_data : \E option \in PickedNames : select_group_name(i, option)
  \/ \E i \in DOMAIN animal_data : \E k \in DOMAIN METABOLIC_OPTIONS :
       select_metabolic(i, METABOLIC_OPTIONS[k])
  \/ \E i \in DOMAIN animal_data : \E text \in TypedMeasures : type_measure(i, text)
  \/ \E i \in DOMAIN animal_data : \E text \in TypedNumbers : type_number(i, text)
  \/ \E text \in TypedTemperatures : type_temperature(text)
  \/ calculate_energy
  \/ display_stats

Spec == Init /\ [][Next]_vars

(***************************************************************************)
(* Claims about the engine's methods, checked under SpecFn.                *)
(***************************************************************************)
Supported(metabolic_type) == metabolic_type \in {endothermic, ectothermic}

Positive(f) == f.m > 0

\* the rate of the documented formula: each coefficient with the exponent of
\* its own regime
DocumentedTerms(I_field, field_power, I_basal, basal_power, A) ==
  PyFloat(FAdd(FMul(FMul(FMul(sig, I_field), A), field_power.val),
               FMul(FMul(FMul(FSub(FromInt(1), sig), I_basal), A), basal_power.val)))

DocumentedRegimes(massGrams, I_field, b_field, I_basal, b_basal, T) ==
  DocumentedTerms(I_field, pow(massGrams, b_field), I_basal, pow(massGrams, b_basal),
                  FExp(FNeg(FDiv(Ea, FMul(kB, T)))))

DocumentedRate(mass, strategy, temperature) ==
  IF strategy = endothermic
  THEN DocumentedRegimes(FMul(mass, FromInt(1000)),
                         FMul(Dec(908, -2), P10(11)), Dec(70, -2),
                         FMul(Dec(419, -2), P10(10)), Dec(69, -2),
                         Dec(3100, -1))
  ELSE DocumentedRegimes(FMul(mass, FromInt(1000)),
                         FMul(Dec(149, -2), P10(11)), Dec(88, -2),
                         FMul(Dec(419, -2), P10(10)), Dec(69, -2),
                         FAdd(temperature, Dec(27415, -2)))

\* C1: for every mass and temperature, metabolic_rate returns
\* sigma*I_field*exp(-Ea/(kB*T))*massGrams^b_field
\* + (1-sigma)*I_basal*exp(-Ea/(kB*T))*massGrams^b_basal, each coefficient
\* multiplied by the power of the mass with the exponent of the same regime.
C1_RegimesPaired ==
  (/\ fn_name = "metabolic_rate"
   /\ Supported(fn_args.metabolic_type)
   /\ Positive(fn_args.measure))
  => fn_ret = DocumentedRate(fn_args.measure, fn_args.metabolic_type, fn_args.temperature)

\* C2: for a strategy outside {Endothermic, Ectothermic}, metabolic_rate ends
\* in an UnsupportedStrategy error and returns no value, numeric or empty.
C2_UnsupportedStrategyRaises ==
  (/\ fn_name = "metabolic_rate"
   /\ fn_args.metabolic_type \notin {endothermic, ectothermic, Endothermic, Ectothermic})
  => fn_ret = PyRaise("UnsupportedStrategy")

\* C3: calculate_group_energy fails whenever measurement <= 0 or
\* individualCount <= 0 and never returns an energy total for such a group
\* (any raised exception is counted as the failure).
C3_InvalidMeasurementRaises ==
  (/\ fn_name = "calculate_group_energy"
   /\ (fn_args.measure.m <= 0 \/ fn_args.number <= 0))
  => fn_ret.kind = "raise"

\* C5: for every mass m > 0 and temperatures t1, t2,
\* metabolic_rate(m, Endothermic, t1) = metabolic_rate(m, Endothermic, t2), and
\* calculate_group_energy of an Endothermic group is the same at t1 and t2.
C5_EndothermicIgnoresTemperature ==
  (/\ fn_name \in {"metabolic_rate", "calculate_group_energy"}
   /\ fn_args.metabolic_type = endothermic
   /\ Positive(fn_args.measure))
  => \A t2 \in TemperatureInputs :
       fn_ret = IF fn_name = "metabolic_rate"
                THEN metabolic_rate(fn_args.measure, fn_args.metabolic_type, t2)
                ELSE calculate_group_energy(fn_args.name, fn_args.measure, fn_args.number,
                                            fn_args.metabolic_type,
                                            fn_args.measurement_type, t2)

C5_Witness ==
  /\ fn_name = "calculate_group_energy"
  /\ fn_args.metabolic_type = endothermic
  /\ Positive(fn_args.measure)
  /\ fn_args.temperature = Dec(37, 0)
  /\ fn_args.number = 3
  /\ fn_ret.kind = "float"
  /\ Positive(fn_ret.val)

\* C6: for an Ectothermic group at ambient temperature 25 degrees Celsius the
\* body temperature used in the Arrhenius term of metabolic_rate is 299.15 K.
C6_EctothermicBodyTemperature ==
  (/\ fn_name \in {"metabolic_rate", "calculate_group_energy"}
   /\ fn_args.metabolic_type = ectothermic
   /\ fn_args.temperature = Dec(25, 0)
   /\ fn_frame.called)
  => fn_frame.Tk = Dec(29915, -2)

C6_Witness ==
  /\ fn_name = "calculate_group_energy"
  /\ fn_args.metabolic_type = ectothermic
  /\ fn_args.temperature = Dec(25, 0)
  /\ fn_args.measurement_type = LengthCm
  /\ fn_args.measure = Dec(1, 0)
  /\ fn_frame.called
  /\ fn_ret.kind = "float"

\* C7: for every valid group and temperature and every count n >= 1,
\* calculate_group_energy with count 2n is 2 times calculate_group_energy with
\* count n, all other arguments equal.
C7_LinearInCount ==
  (/\ fn_name = "calculate_group_energy"
   /\ Supported(fn_args.metabolic_type)
   /\ Positive(fn_args.measure)
   /\ fn_args.number >= 1)
  => /\ fn_ret.kind = "float"
     /\ calculate_group_energy(fn_args.name, fn_args.measure, 2 * fn_args.number,
                               fn_args.metabolic_type, fn_args.measurement_type,
                               fn_args.temperature)
          = PyFloat(FMul(FromInt(2), fn_ret.val))

C7_Witness ==
  /\ fn_name = "calculate_group_energy"
  /\ Supported(fn_args.metabolic_type)
  /\ Positive(fn_args.measure)
  /\ fn_args.number = 3
  /\ fn_ret.kind = "float"
  /\ Positive(fn_ret.val)

(***************************************************************************)
(* Claims about the window, checked under Spec.                            *)
(***************************************************************************)
\* C4: display_stats with an empty animal_data list ends in an error and
\* shows no mean, median or standard deviation.
C4_EmptyInputRaises ==
  [][(animal_data = <<>> /\ display_stats)
       => (callback_exc' # "none" /\ lbl_result'.kind # "stats")]_vars

\* C8: when exactly one group is present and display_stats succeeds, the mean
\* and the median it shows equal the total calculate_energy reports for the
\* same entries, and the standard deviation is 0.
C8_SingleGroupStatistics ==
  [][(Len(animal_data) = 1 /\ display_stats /\ callback_exc' = "none")
       => /\ lbl_result'.kind = "stats"
          /\ calculate_energy_run(animal_data, temperature_entry).exc = "none"
          /\ lbl_result'.mean = calculate_energy_run(animal_data, temperature_entry).total
          /\ lbl_result'.median = lbl_result'.mean
          /\ lbl_result'.std = PyFloat(Zero)]_vars

C8_Witness ==
  /\ Len(animal_data) = 1
  /\ lbl_result.kind = "stats"
  /\ lbl_result.mean.kind = "float"
  /\ Positive(lbl_result.mean.val)
  /\ lbl_result.median = lbl_result.mean

\* C9: animal_data holds only groups that were not removed: the widgets of
\* every entry still exist.
C9_OnlyRemainingGroups ==
  \A i \in DOMAIN animal_data : animal_data[i].group_frame

\* C10: for every group in animal_data, measurement_type is "Length (cm)" if
\* and only if the category is "Insects", and "Mass (kg)" otherwise, so that
\* length_to_mass is applied to Insects groups only.
C10_LengthIffInsects ==
  \A i \in DOMAIN animal_data :
    /\ animal_data[i].measurement_type \in {MassKg, LengthCm}
    /\ animal_data[i].measurement_type = LengthCm <=> animal_data[i].name = "Insects"

C10_Witness ==
  /\ \E i \in DOMAIN animal_data :
       /\ animal_data[i].name = "Insects"
       /\ animal_data[i].measurement_type = LengthCm
  /\ lbl_result.kind = "energy"
  /\ Len(lbl_result.groups) = 1
  /\ lbl_result.groups[1].name = "Insects"

====
